---- MODULE Spec2Model ----
(***************************************************************************)
(* Wind-turbine predictive-maintenance notebooks.                          *)
(*                                                                         *)
(*  - "02-Wind Turbine SparkML Predictive Maintainance - ORIG.py": one     *)
(*    notebook session trains a pipeline inside an MLflow run, searches    *)
(*    the best run, registers it as a model version, promotes the version  *)
(*    to Production and scores with the Production model.                  *)
(*  - "resources/Wind Turbine power.py": an Auto Loader (cloudFiles)       *)
(*    stream that appends JSON files to a Delta table with a checkpoint.   *)
(*                                                                         *)
(* The calls into MLflow, Spark and Delta are single steps of the model;   *)
(* each one behaves as the library call configured in the source does.     *)
(***************************************************************************)
EXTENDS Integers, Sequences, FiniteSets, TLC

VARIABLES
    \* ---- tracking server and model registry (shared by all sessions)
    runs,               \* the run log: <<[status, f1, tag]>>, run id = index
    versions,           \* versions of "joseph_turbine_gbt": <<[stage, run]>>
    \* ---- the publishing cells, one notebook session per process
    pc,                 \* the cell/statement each session is at
    active_run,         \* the run opened by mlflow.start_run()
    best_models,        \* first row of the search result (0: not searched)
    model_registered,   \* model_registered.version (0: none)
    error,              \* the exception that ended the session
    \* ---- the scoring cells ("production pipeline"), run on their own
    spc,                \* the statement the scorer is at
    model_from_registry,\* version behind mlflow.spark.load_model (0: none)
    udf,                \* version behind mlflow.pyfunc.spark_udf (0: none)
    predictions,        \* versions that produced a prediction column
    score_error,        \* the exception that ended the scoring
    \* ---- the power stream
    landed,             \* source files in the raw directory: <<records>>
    offsetLog,          \* checkpoint offsets/: batch id -> files of the batch
    commitLog,          \* checkpoint commits/: number of committed batches
    txnVersion,         \* Delta txn version of the query (last batch written)
    bronze,             \* the bronze Delta table: sequence of rows
    status,             \* the streaming query: "stopped" | "active"
    phase,              \* micro-batch position: "idle" | "planned" | "written"
    starts,             \* how many times .start() ran (one runId each)
    \* ---- two executions of the training cell (leakage is a 2-run property)
    dataset,            \* per execution: the rows read by spark.read.load
    sample,             \* the draws of the seed-42 sampler, by row position
    tpc,                \* per execution: position in the training cell
    training,           \* per execution: the training split
    test,               \* per execution: the test split
    pipelineTrained,    \* per execution: fitted scaler parameters
    scored              \* per execution: scaler parameters applied to test

pubVars    == <<pc, active_run, best_models, model_registered, error>>
scoreVars  == <<spc, model_from_registry, udf, predictions, score_error>>
regVars    == <<runs, versions, pubVars, scoreVars>>
streamVars == <<landed, offsetLog, commitLog, txnVersion, bronze, status,
                phase, starts>>
trainVars  == <<dataset, sample, tpc, training, test, pipelineTrained, scored>>
vars       == <<regVars, streamVars, trainVars>>

-----------------------------------------------------------------------------
(* Bounds *)

\* notebook sessions that run the publishing cells concurrently
NumSessions == 2
\* resolution of the F1 metric
MaxF1 == 2
\* source files that land in the raw directory
NumFiles == 2
\* runs of the streaming query (the first start and the restarts)
MaxStarts == 2
\* records per source file
MaxRecs == 2
\* rows of the training dataset
NumRows == 3
\* largest amplitude value of a row
MaxVal == 1

Sessions == 1..NumSessions
\* metrics.fMeasure(1.0) lies in [0,1]; level k stands for k/MaxF1
F1Levels == 0..MaxF1

Max(S) == CHOOSE x \in S : \A y \in S : y <= x

-----------------------------------------------------------------------------
(* Tracking server and registry                                            *)

\* filter_string of mlflow.search_runs
EligibleRuns(rs) ==
    {i \in 1..Len(rs) : rs[i].tag /\ rs[i].status = "FINISHED" /\ rs[i].f1 > 0}

CompletedRuns(rs) ==
    {i \in 1..Len(rs) : rs[i].tag /\ rs[i].status = "FINISHED"}

\* order_by = metrics.f1 ASC: a faulty variant of OrderedFirst
OrderedFirstAsc(rs) ==
    {i \in EligibleRuns(rs) : \A j \in EligibleRuns(rs) : rs[i].f1 <= rs[j].f1}

\* order_by=['metrics.f1 DESC'], max_results=1: the rows that can come first
\* (the order among equal f1 is the tracking server's choice)
OrderedFirst(rs) ==
    {i \in EligibleRuns(rs) : \A j \in EligibleRuns(rs) : rs[j].f1 <= rs[i].f1}

\* archive_existing_versions=False: a faulty variant of archive_existing_versions
archive_existing_versions_off == FALSE

\* the keyword argument of transition_model_version_stage
archive_existing_versions == TRUE

\* the registry's stage transition to "Production"
TransitionStage(vs, v) ==
    [i \in 1..Len(vs) |->
        IF i = v THEN [vs[i] EXCEPT !.stage = "Production"]
        ELSE IF archive_existing_versions /\ vs[i].stage = "Production"
             THEN [vs[i] EXCEPT !.stage = "Archived"]
             ELSE vs[i]]

ProductionVersions(vs) == {i \in 1..Len(vs) : vs[i].stage = "Production"}

\* models:/<name>/latest-like fallback: a faulty variant of ResolveProduction
ResolveAnyStage(vs) == IF vs = <<>> THEN {} ELSE {Len(vs)}

\* models:/{model_name}/production: the latest version in stage Production
ResolveProduction(vs) ==
    IF ProductionVersions(vs) = {} THEN {} ELSE {Max(ProductionVersions(vs))}

InitReg ==
    /\ runs = <<>>
    /\ versions = <<>>
    /\ pc = [p \in Sessions |-> "start"]
    /\ active_run = [p \in Sessions |-> 0]
    /\ best_models = [p \in Sessions |-> 0]
    /\ model_registered = [p \in Sessions |-> 0]
    /\ error = [p \in Sessions |-> "none"]
    /\ spc = "load"
    /\ model_from_registry = 0
    /\ udf = 0
    /\ predictions = {}
    /\ score_error = "none"

\* with mlflow.start_run(): fit, evaluate, log_metric("f1", ...), log_model,
\* set_tag("model", "turbine_gbt"); the run stays RUNNING inside the block
start_run(p) ==
    /\ pc[p] = "start"
    /\ \E f \in F1Levels :
          runs' = Append(runs, [status |-> "RUNNING", f1 |-> f, tag |-> TRUE])
    /\ active_run' = [active_run EXCEPT ![p] = Len(runs) + 1]
    /\ pc' = [pc EXCEPT ![p] = "figure"]
    /\ UNCHANGED <<versions, best_models, model_registered, error>>
    /\ UNCHANGED <<scoreVars, streamVars, trainVars>>

\* the with block ends normally: the run is FINISHED
end_run(p) ==
    /\ pc[p] = "figure"
    /\ runs' = [runs EXCEPT ![active_run[p]].status = "FINISHED"]
    /\ pc' = [pc EXCEPT ![p] = "search"]
    /\ UNCHANGED <<versions, active_run, best_models, model_registered, error>>
    /\ UNCHANGED <<scoreVars, streamVars, trainVars>>

\* an exception inside the with block: the run is FAILED, the session stops
fail_run(p) ==
    /\ pc[p] = "figure"
    /\ runs' = [runs EXCEPT ![active_run[p]].status = "FAILED"]
    /\ pc' = [pc EXCEPT ![p] = "failed"]
    /\ error' = [error EXCEPT ![p] = "Exception"]
    /\ UNCHANGED <<versions, active_run, best_models, model_registered>>
    /\ UNCHANGED <<scoreVars, streamVars, trainVars>>

\* a faulty variant of search_runs: an empty result is not noticed
search_runs_unchecked(p) ==
    /\ pc[p] = "search"
    /\ \E r \in (IF OrderedFirst(runs) = {} THEN {0} ELSE OrderedFirst(runs)) :
          best_models' = [best_models EXCEPT ![p] = r]
    /\ pc' = [pc EXCEPT ![p] = "register"]
    /\ UNCHANGED <<runs, versions, active_run, model_registered, error>>
    /\ UNCHANGED <<scoreVars, streamVars, trainVars>>

\* best_models = mlflow.search_runs(...); best_models.iloc[0]
search_runs(p) ==
    /\ pc[p] = "search"
    /\ IF OrderedFirst(runs) = {}
       THEN \* iloc[0] on an empty frame raises IndexError
            /\ pc' = [pc EXCEPT ![p] = "failed"]
            /\ error' = [error EXCEPT ![p] = "IndexError"]
            /\ UNCHANGED best_models
       ELSE /\ \E r \in OrderedFirst(runs) :
                  best_models' = [best_models EXCEPT ![p] = r]
            /\ pc' = [pc EXCEPT ![p] = "register"]
            /\ UNCHANGED error
    /\ UNCHANGED <<runs, versions, active_run, model_registered>>
    /\ UNCHANGED <<scoreVars, streamVars, trainVars>>

\* model_registered = mlflow.register_model(artifact_uri + "/turbine_gbt", model_name)
register_model(p) ==
    /\ pc[p] = "register"
    /\ versions' = Append(versions, [stage |-> "None", run |-> best_models[p]])
    /\ model_registered' = [model_registered EXCEPT ![p] = Len(versions) + 1]
    /\ pc' = [pc EXCEPT ![p] = "promote"]
    /\ UNCHANGED <<runs, active_run, best_models, error>>
    /\ UNCHANGED <<scoreVars, streamVars, trainVars>>

\* client.transition_model_version_stage(name, version, "Production", ...)
transition_model_version_stage(p) ==
    /\ pc[p] = "promote"
    /\ versions' = TransitionStage(versions, model_registered[p])
    /\ pc' = [pc EXCEPT ![p] = "done"]
    /\ UNCHANGED <<runs, active_run, best_models, model_registered, error>>
    /\ UNCHANGED <<scoreVars, streamVars, trainVars>>

\* model_from_registry = mlflow.spark.load_model('models:/.../production')
load_model ==
    /\ spc = "load"
    /\ IF ResolveProduction(versions) = {}
       THEN /\ spc' = "failed"
            /\ score_error' = "MlflowException"
            /\ UNCHANGED model_from_registry
       ELSE /\ model_from_registry' \in ResolveProduction(versions)
            /\ spc' = "udf"
            /\ UNCHANGED score_error
    /\ UNCHANGED <<runs, versions, pubVars, udf, predictions>>
    /\ UNCHANGED <<streamVars, trainVars>>

\* udf = mlflow.pyfunc.spark_udf(spark, 'models:/.../production')
spark_udf ==
    /\ spc = "udf"
    /\ IF ResolveProduction(versions) = {}
       THEN /\ spc' = "failed"
            /\ score_error' = "MlflowException"
            /\ UNCHANGED udf
       ELSE /\ udf' \in ResolveProduction(versions)
            /\ spc' = "score"
            /\ UNCHANGED score_error
    /\ UNCHANGED <<runs, versions, pubVars, model_from_registry, predictions>>
    /\ UNCHANGED <<streamVars, trainVars>>

\* dataset.withColumn("colPrediction", udf(...)) and
\* model_from_registry.transform(dataset.limit(100))
transform ==
    /\ spc = "score"
    /\ predictions' = {udf, model_from_registry}
    /\ spc' = "done"
    /\ UNCHANGED <<runs, versions, pubVars, model_from_registry, udf, score_error>>
    /\ UNCHANGED <<streamVars, trainVars>>

-----------------------------------------------------------------------------
(* The power stream: cloudFiles source -> Delta sink with a checkpoint     *)

Files == 1..NumFiles

\* a JSON file: a sequence of records, each matching the declared schema
\* ("ok") or not ("bad")
Contents == UNION {[1..n -> {"ok", "bad"}] : n \in 1..MaxRecs}

Range(s) == {s[i] : i \in 1..Len(s)}

\* mode DROPMALFORMED: a faulty variant of ParseFile
ParseFileDropMalformed(f, c) ==
    SelectSeq([i \in 1..Len(c) |->
                  [file |-> f, rec |-> i,
                   value |-> IF c[i] = "ok" THEN "fields" ELSE "nulls"]],
              LAMBDA r : r.value = "fields")

\* format json with .schema(...) and no mode option (PERMISSIVE), no
\* corrupt-record column: a record that fails the schema becomes a row of nulls
ParseFile(f, c) ==
    [i \in 1..Len(c) |->
        [file |-> f, rec |-> i,
         value |-> IF c[i] = "ok" THEN "fields" ELSE "nulls"]]

\* the rows of a batch: its files parsed, in file order
RECURSIVE BatchRows(_, _)
BatchRows(S, ld) ==
    IF S = {} THEN <<>>
    ELSE LET f == CHOOSE x \in S : \A y \in S : x <= y
         IN  ParseFile(f, ld[f]) \o BatchRows(S \ {f}, ld)

\* option cloudFiles.maxFilesPerTrigger
maxFilesPerTrigger == 1

\* a source without file tracking: a faulty variant of NewFiles
NewFilesUntracked(ld, ol) == DOMAIN ld

\* cloudFiles: the files discovered and not yet handed to a batch
NewFiles(ld, ol) == DOMAIN ld \ UNION Range(ol)

\* the batches a poll can plan: as many new files as the option allows
Batches(new) ==
    {S \in SUBSET new :
        /\ S # {}
        /\ Cardinality(S) <= maxFilesPerTrigger
        /\ Cardinality(S) = maxFilesPerTrigger \/ S = new}

\* a sink that is not idempotent: a faulty variant of SinkSkips
SinkNeverSkips(txn, batch) == FALSE

\* format delta: the sink skips a batch id it has already committed
SinkSkips(txn, batch) == txn >= batch

\* a sink that publishes rows one at a time: a faulty variant of SinkCommit
SinkCommitPartial(tbl, rows) ==
    IF rows = <<>> THEN {tbl} ELSE {tbl \o SubSeq(rows, 1, n) : n \in 1..Len(rows)}

\* format delta: the rows of a batch become visible in one table commit
SinkCommit(tbl, rows) == {tbl \o rows}

InitStream ==
    /\ landed = <<>>
    /\ offsetLog = <<>>
    /\ commitLog = 0
    /\ txnVersion = 0
    /\ bronze = <<>>
    /\ status = "stopped"
    /\ phase = "idle"
    /\ starts = 0

\* a JSON file lands in the raw directory given to .load(...); files are
\* numbered in the order they land
land ==
    /\ Len(landed) < NumFiles
    /\ \E c \in Contents : landed' = Append(landed, c)
    /\ UNCHANGED <<offsetLog, commitLog, txnVersion, bronze, status, phase, starts>>
    /\ UNCHANGED <<regVars, trainVars>>

\* .start(): a new run of the query, resuming from checkpointLocation; a
\* batch whose offsets were logged but not committed is run again
start ==
    /\ status = "stopped"
    /\ starts < MaxStarts
    /\ status' = "active"
    /\ starts' = starts + 1
    /\ phase' = IF Len(offsetLog) > commitLog THEN "planned" ELSE "idle"
    /\ UNCHANGED <<landed, offsetLog, commitLog, txnVersion, bronze>>
    /\ UNCHANGED <<regVars, trainVars>>

\* trigger(processingTime = "10 seconds"): the poll plans the next batch from
\* the new files and logs its offsets
trigger ==
    /\ status = "active"
    /\ phase = "idle"
    /\ \E S \in Batches(NewFiles(landed, offsetLog)) :
          offsetLog' = Append(offsetLog, S)
    /\ phase' = "planned"
    /\ UNCHANGED <<landed, commitLog, txnVersion, bronze, status, starts>>
    /\ UNCHANGED <<regVars, trainVars>>

\* writeStream.format("delta"): the planned batch is written to the table
addBatch ==
    /\ status = "active"
    /\ phase = "planned"
    /\ LET batch == Len(offsetLog)
       IN  IF SinkSkips(txnVersion, batch)
           THEN UNCHANGED <<bronze, txnVersion>>
           ELSE /\ bronze' \in SinkCommit(bronze,
                                          BatchRows(offsetLog[batch], landed))
                /\ txnVersion' = batch
    /\ phase' = "written"
    /\ UNCHANGED <<landed, offsetLog, commitLog, status, starts>>
    /\ UNCHANGED <<regVars, trainVars>>

\* the batch is recorded as committed in checkpointLocation
commit ==
    /\ status = "active"
    /\ phase = "written"
    /\ commitLog' = Len(offsetLog)
    /\ phase' = "idle"
    /\ UNCHANGED <<landed, offsetLog, txnVersion, bronze, status, starts>>
    /\ UNCHANGED <<regVars, trainVars>>

\* the query ends: the cell is cancelled or the engine fails, at any point of
\* the loop; what was not written to the checkpoint or the table is lost
terminate ==
    /\ status = "active"
    /\ status' = "stopped"
    /\ phase' = "idle"
    /\ UNCHANGED <<landed, offsetLog, commitLog, txnVersion, bronze, starts>>
    /\ UNCHANGED <<regVars, trainVars>>

-----------------------------------------------------------------------------
(* The training cell, executed twice on two datasets                       *)

Execs == 1..2

\* one amplitude channel per row (the scaler treats each of the channels of
\* featureCols independently)
Datasets == [1..NumRows -> 0..MaxVal]

RECURSIVE Gcd(_, _)
Gcd(a, b) == IF b = 0 THEN a ELSE Gcd(b, a % b)

Abs(x) == IF x < 0 THEN -x ELSE x

\* the rational n/d in lowest terms
Frac(n, d) ==
    LET g == Gcd(Abs(n), Abs(d))
    IN  IF g = 0 THEN <<0, 1>> ELSE <<n \div g, d \div g>>

RECURSIVE SumSeq(_)
SumSeq(s) == IF s = <<>> THEN 0 ELSE Head(s) + SumSeq(Tail(s))

\* StandardScaler(inputCol="va", outputCol="features").fit: mean and
\* unbiased variance of the column
StandardScalerFit(rows) ==
    LET n == Len(rows)
        sum == SumSeq(rows)
        sumsq == SumSeq([i \in 1..n |-> rows[i] * rows[i]])
    IN  [mean |-> IF n = 0 THEN <<0, 1>> ELSE Frac(sum, n),
         var  |-> IF n <= 1 THEN <<0, 1>>
                  ELSE Frac(n * sumsq - sum * sum, n * (n - 1))]

\* the rows of s at the positions where keep holds, in order
RECURSIVE Pick(_, _)
Pick(s, keep) ==
    IF s = <<>> THEN <<>>
    ELSE (IF Head(keep) THEN <<Head(s)>> ELSE <<>>) \o Pick(Tail(s), Tail(keep))

\* pipeline.fit(dataset): a faulty variant of FitInput
FitInputDataset(r) == dataset[r]

\* pipeline.fit(training)
FitInput(r) == training[r]

InitTrainIdle ==
    /\ dataset = [r \in Execs |-> <<>>]
    /\ sample = <<>>
    /\ tpc = [r \in Execs |-> "done"]
    /\ training = [r \in Execs |-> <<>>]
    /\ test = [r \in Execs |-> <<>>]
    /\ pipelineTrained = [r \in Execs |-> "unfit"]
    /\ scored = [r \in Execs |-> "none"]

InitTrain ==
    /\ dataset \in [Execs -> Datasets]
    /\ sample \in [1..NumRows -> BOOLEAN]
    /\ tpc = [r \in Execs |-> "split"]
    /\ training = [r \in Execs |-> <<>>]
    /\ test = [r \in Execs |-> <<>>]
    /\ pipelineTrained = [r \in Execs |-> "unfit"]
    /\ scored = [r \in Execs |-> "none"]

\* training, test = dataset.limit(1000).randomSplit([0.9, 0.1], seed = 42):
\* the rows are sorted and the seeded sampler draws each position into one
\* of the two splits (the same draws in every execution: the seed is fixed)
randomSplit(r) ==
    /\ tpc[r] = "split"
    /\ LET sorted == SortSeq(dataset[r], LAMBDA a, b : a < b)
       IN  /\ training' = [training EXCEPT ![r] = Pick(sorted, sample)]
           /\ test' = [test EXCEPT ![r] =
                          Pick(sorted, [i \in 1..NumRows |-> ~sample[i]])]
    /\ tpc' = [tpc EXCEPT ![r] = "fit"]
    /\ UNCHANGED <<dataset, sample, pipelineTrained, scored>>
    /\ UNCHANGED <<regVars, streamVars>>

\* pipelineTrained = pipeline.fit(training)
fit(r) ==
    /\ tpc[r] = "fit"
    /\ pipelineTrained' = [pipelineTrained EXCEPT ![r] = StandardScalerFit(FitInput(r))]
    /\ tpc' = [tpc EXCEPT ![r] = "transform"]
    /\ UNCHANGED <<dataset, sample, training, test, scored>>
    /\ UNCHANGED <<regVars, streamVars>>

\* predictions = pipelineTrained.transform(test)
transformTest(r) ==
    /\ tpc[r] = "transform"
    /\ scored' = [scored EXCEPT ![r] = pipelineTrained[r]]
    /\ tpc' = [tpc EXCEPT ![r] = "done"]
    /\ UNCHANGED <<dataset, sample, training, test, pipelineTrained>>
    /\ UNCHANGED <<regVars, streamVars>>

-----------------------------------------------------------------------------
(* Specifications                                                          *)

Init == InitReg /\ InitStream /\ InitTrainIdle

PublisherNext ==
    \E p \in Sessions :
        \/ start_run(p)
        \/ end_run(p)
        \/ fail_run(p)
        \/ search_runs(p)
        \/ register_model(p)
        \/ transition_model_version_stage(p)

Next ==
    \/ PublisherNext
    \/ load_model
    \/ spark_udf
    \/ transform

\* the notebook sessions against the tracking server and the registry
Spec == Init /\ [][Next]_vars

NextStream ==
    \/ land
    \/ start
    \/ trigger
    \/ addBatch
    \/ commit
    \/ terminate

\* the power stream
SpecStream == Init /\ [][NextStream]_vars

\* the power stream with the trigger's scheduling: while the query is
\* active, a poll, a sink write and a commit that stay possible do happen
LiveStream ==
    /\ Init
    /\ [][NextStream]_vars
    /\ WF_vars(trigger)
    /\ WF_vars(addBatch)
    /\ WF_vars(commit)

InitTraining == InitReg /\ InitStream /\ InitTrain

NextTrain ==
    \E r \in Execs :
        \/ randomSplit(r)
        \/ fit(r)
        \/ transformTest(r)

\* two executions of the training cell
SpecTrain == InitTraining /\ [][NextTrain]_vars

-----------------------------------------------------------------------------
(* Registry and publisher properties (checked under Spec)                  *)

Prod == ProductionVersions(versions)

SearchStep(p)   == pc[p] = "search" /\ pc'[p] # "search"
RegisterStep(p) == pc[p] = "register" /\ pc'[p] = "promote"
PromoteStep(p)  == pc[p] = "promote" /\ pc'[p] = "done"
LoadStep        == spc = "load" /\ spc' # "load"
UdfStep         == spc = "udf" /\ spc' # "udf"

\* no session is between its register step and its promote step
Quiescent == \A p \in Sessions : pc[p] # "promote"

\* C1: at most one version of the model name is in stage Production in every
\* reachable state, and the promote step for version N leaves N as the only
\* Production version, with every version that was Production before the
\* step Archived after it.
C1_ExclusivePromotion ==
    /\ [](Cardinality(Prod) <= 1)
    /\ [][\A p \in Sessions :
            PromoteStep(p) =>
               /\ ProductionVersions(versions') = {model_registered[p]}
               /\ \A v \in Prod \ {model_registered[p]} :
                     versions'[v].stage = "Archived"]_vars

\* a promotion has archived an earlier Production version
C1_Witness ==
    \E p \in Sessions :
       /\ pc[p] = "done"
       /\ Prod = {model_registered[p]}
       /\ \E v \in 1..Len(versions) : versions[v].stage = "Archived"

C6_Original ==
    [][\A p \in Sessions :
         (SearchStep(p) /\ OrderedFirst(runs) = {}) =>
            error'[p] = "NoEligibleRunError" /\ versions' = versions]_vars

\* C6 as amended: a run search that returns no row ends the session with the
\* IndexError of best_models.iloc[0]; that step and the session afterwards
\* create no version and change no stage.
C6_EmptySearchFails ==
    /\ [][\A p \in Sessions :
            (SearchStep(p) /\ OrderedFirst(runs) = {}) =>
               /\ error'[p] = "IndexError"
               /\ pc'[p] = "failed"
               /\ versions' = versions]_vars
    /\ [][\A p \in Sessions :
            pc[p] = "failed" => pc'[p] = "failed" /\ model_registered'[p] = 0]_vars

\* a session searched while no run was eligible
C6_Witness ==
    \E p \in Sessions : error[p] = "IndexError" /\ model_registered[p] = 0

\* C5 as stated: loading the Production model when no version is in stage
\* Production fails with NoProductionModelError.
C5_Original ==
    [][(LoadStep /\ Prod = {}) => score_error' = "NoProductionModelError"]_vars

\* C5 as amended: loading the Production model when no version is in stage
\* Production fails with the registry lookup's MlflowException and loads
\* nothing; otherwise the version loaded is in stage Production at the load;
\* a prediction column only ever comes from versions loaded that way.
C5_NoProductionFails ==
    /\ [][/\ LoadStep =>
               IF Prod = {}
               THEN /\ score_error' = "MlflowException"
                    /\ spc' = "failed"
                    /\ model_from_registry' = 0
               ELSE model_from_registry' \in Prod
          /\ UdfStep =>
               IF Prod = {}
               THEN score_error' = "MlflowException" /\ udf' = 0
               ELSE udf' \in Prod]_vars
    /\ [](/\ predictions # {} =>
               /\ predictions = {udf, model_from_registry}
               /\ 0 \notin predictions
               /\ score_error = "none"
          /\ score_error # "none" => predictions = {})
    /\ [][versions' = versions \/ (\E p \in Sessions : pc'[p] # pc[p])]_vars

\* scoring failed while a version was registered and none was in Production
C5_Witness ==
    /\ score_error = "MlflowException"
    /\ predictions = {}
    /\ versions # <<>>
    /\ Prod = {}

\* the scorer produced predictions from the Production version
C5_Scored ==
    /\ predictions # {}
    /\ predictions \subseteq Prod

-----------------------------------------------------------------------------
(* Stream properties (checked under SpecStream and LiveStream)             *)

\* how many rows of the bronze table come from record i of file f
RowCount(f, i) ==
    Cardinality({k \in 1..Len(bronze) : bronze[k].file = f /\ bronze[k].rec = i})

NoRows(f) == \A i \in 1..MaxRecs : RowCount(f, i) = 0

AllRowsOnce(f) ==
    /\ f \in DOMAIN landed
    /\ \A i \in 1..MaxRecs : RowCount(f, i) = IF i <= Len(landed[f]) THEN 1 ELSE 0

Committed(b) == b <= commitLog

\* C3: across file arrivals, polls, terminations and restarts from the
\* checkpoint, every record of every source file is in the bronze table at
\* most once, every row comes from a landed file, and once all landed files
\* are in committed batches the table holds exactly their rows.
C3_RestartIdempotent ==
    /\ \A f \in Files : \A i \in 1..MaxRecs : RowCount(f, i) <= 1
    /\ \A k \in 1..Len(bronze) :
          /\ bronze[k].file \in DOMAIN landed
          /\ bronze[k].rec \in 1..Len(landed[bronze[k].file])
    /\ \A b \in 1..commitLog : \A f \in offsetLog[b] : AllRowsOnce(f)
    /\ (commitLog = Len(offsetLog) /\ UNION Range(offsetLog) = DOMAIN landed) =>
          \A f \in Files : IF f \in DOMAIN landed THEN AllRowsOnce(f) ELSE NoRows(f)

\* the query was restarted and every file has been ingested
C3_Witness ==
    /\ starts >= 2
    /\ DOMAIN landed = Files
    /\ commitLog = NumFiles
    /\ \A f \in Files : AllRowsOnce(f)

\* C9 as stated: once the query has ended (cancellation or failure, also
\* during a batch), the table holds all rows of a batch's file together
\* with the batch's checkpoint commit, or holds none of them and no commit.
C9_Original ==
    status = "stopped" =>
       \A b \in 1..Len(offsetLog) :
          \/ Committed(b) /\ \A f \in offsetLog[b] : AllRowsOnce(f)
          \/ ~Committed(b) /\ \A f \in offsetLog[b] : NoRows(f)

\* C9 as amended: the table holds all rows of a batch's file or none of
\* them; rows are present only for a file whose batch is in the offset log,
\* and are all present once the batch is committed, but after a termination
\* between the sink write and the checkpoint commit the rows are present
\* without the commit; the file of a planned batch never changes, and no
\* file is added to a batch while one is in flight.
C9_BatchAllOrNothing ==
    /\ [](\A f \in Files :
            /\ NoRows(f) \/ AllRowsOnce(f)
            /\ ~NoRows(f) => \E b \in 1..txnVersion : f \in offsetLog[b])
    /\ [](/\ commitLog <= txnVersion
          /\ txnVersion <= Len(offsetLog)
          /\ Len(offsetLog) <= commitLog + 1
          /\ \A b \in 1..txnVersion :
                (\A f \in offsetLog[b] : AllRowsOnce(f)))
    /\ [][/\ \A b \in 1..Len(offsetLog) :
               Len(offsetLog') >= b /\ offsetLog'[b] = offsetLog[b]
          /\ phase # "idle" => offsetLog' = offsetLog]_vars

\* the query ended after the sink write of a batch and before its commit
C9_Witness ==
    /\ status = "stopped"
    /\ \E b \in 1..Len(offsetLog) :
          /\ ~Committed(b)
          /\ \E f \in offsetLog[b] : AllRowsOnce(f) /\ Len(landed[f]) >= 2

\* C7 as stated: a record that fails the schema is skipped or quarantined,
\* so no row of the table comes from such a record.
C7_Original ==
    \A k \in 1..Len(bronze) : landed[bronze[k].file][bronze[k].rec] = "ok"

Ingested(f) == AllRowsOnce(f)

\* C7 as amended: a record that fails the schema aborts nothing and is not
\* skipped: every record of a written batch has exactly one row, a row of
\* nulls for a record that fails the schema and a row of fields otherwise;
\* and if the query stays active from some point on, every landed file is
\* eventually ingested, whatever the files before or after it hold (files
\* only accumulate and rows are never removed, so this is: again and again
\* the query is not active or every landed file is ingested).
C7_MalformedDoesNotBlock ==
    /\ [](\A b \in 1..txnVersion :
            \A f \in offsetLog[b] :
               \A i \in 1..Len(landed[f]) :
                  /\ RowCount(f, i) = 1
                  /\ \E k \in 1..Len(bronze) :
                        /\ bronze[k].file = f
                        /\ bronze[k].rec = i
                        /\ bronze[k].value =
                              IF landed[f][i] = "ok" THEN "fields" ELSE "nulls")
    /\ []<>(status # "active" \/ \A f \in DOMAIN landed : Ingested(f))

\* a file with a malformed record and a well-formed record was ingested, and
\* a well-formed file after it
C7_Witness ==
    \E b1, b2 \in 1..commitLog :
       /\ b1 < b2
       /\ \E f \in offsetLog[b1] :
             Range(landed[f]) = {"ok", "bad"} /\ Ingested(f)
       /\ \E f \in offsetLog[b2] :
             Range(landed[f]) = {"ok"} /\ Ingested(f)

-----------------------------------------------------------------------------
(* Training property (checked under SpecTrain)                             *)

Fitted(r) == tpc[r] \in {"transform", "done"}

\* C8: two executions whose training splits are identical are fitted with
\* identical scaler parameters, whatever their test splits hold, and the
\* scaler applied to the test split is the fitted one.
C8_ScalerFromTrainingOnly ==
    /\ (Fitted(1) /\ Fitted(2) /\ training[1] = training[2]) =>
          pipelineTrained[1] = pipelineTrained[2]
    /\ \A r \in Execs : tpc[r] = "done" => scored[r] = pipelineTrained[r]

\* two executions with the same training split of two rows or more and
\* different test splits have both scored their test split
C8_Witness ==
    /\ tpc[1] = "done"
    /\ tpc[2] = "done"
    /\ training[1] = training[2]
    /\ Len(training[1]) >= 2
    /\ test[1] # test[2]

====
